---------------------------- MODULE Spec2Model ----------------------------
(***************************************************************************)
(* btop broadcast server (src/btop/broadcast-server.py).                   *)
(*                                                                         *)
(* One producer thread (frame_updater) captures the tmux pane, parses the  *)
(* ANSI text into a grid of cells and stores the grid in the shared slot   *)
(* current_cells under cells_lock.  Every HTTP connection is served by its *)
(* own thread (ThreadedHTTPServer); a /stream connection runs handle_sse,  *)
(* which repeatedly reads the slot and writes a full or a delta message.   *)
(*                                                                         *)
(* Text is a sequence of one-character strings; the escape character 0x1b  *)
(* is written "ESC".  Python's None is None for a colour, NoFrame for a    *)
(* list of cells and NoRef for a reference to a list object.  Python list  *)
(* indices are kept 0-based, At(s, i) reads s[i].                          *)
(***************************************************************************)
EXTENDS Integers, Sequences, FiniteSets, TLC

(* Grid: the source has COLS = 132 and ROWS = 43; the model keeps a small  *)
(* grid so that every frame is enumerable.                                 *)
COLS == 2
ROWS == 2
TOTAL_CELLS == COLS * ROWS

(* frame_updater calls enforce_terminal_size every 60 cycles; the model    *)
(* counts to a smaller number.                                             *)
ENFORCE_EVERY == 2

(* Number of connection slots (handler threads that may live at once).     *)
NConn == 2

None == "None"
NoFrame == << >>
NoRef == 0
ESC == "ESC"

At(s, i) == s[i + 1]

COLORS_16 ==
  << "000000", "aa0000", "00aa00", "aa5500",
     "0000aa", "aa00aa", "00aaaa", "aaaaaa",
     "555555", "ff5555", "55ff55", "ffff55",
     "5555ff", "ff55ff", "55ffff", "ffffff" >>

HexDigit == << "0", "1", "2", "3", "4", "5", "6", "7",
               "8", "9", "a", "b", "c", "d", "e", "f" >>

RECURSIVE Hex(_)
Hex(n) == IF n < 16 THEN At(HexDigit, n)
          ELSE Hex(n \div 16) \o At(HexDigit, n % 16)

(* The format spec :x : no padding.                                        *)
HexUnpadded(n) == Hex(n)

(* The format spec :02x : lowercase hex, zero-padded to at least 2 digits. *)
Hex02(n) == IF n < 16 THEN "0" \o Hex(n) ELSE Hex(n)

get_256_color(n) ==
  IF n < 16 THEN At(COLORS_16, n)
  ELSE IF n < 232
       THEN LET m == n - 16
                r == (m \div 36) * 51
                g == ((m % 36) \div 6) * 51
                b == (m % 6) * 51
            IN  Hex02(r) \o Hex02(g) \o Hex02(b)
       ELSE LET gray == (n - 232) * 10 + 8
            IN  Hex02(gray) \o Hex02(gray) \o Hex02(gray)

DecDigit == << "0", "1", "2", "3", "4", "5", "6", "7", "8", "9" >>
IsDigit(ch) == \E d \in 0..9 : At(DecDigit, d) = ch
DigitVal(ch) == CHOOSE d \in 0..9 : At(DecDigit, d) = ch

(* int(c) on a non-empty string of decimal digits.                         *)
RECURSIVE IntOf(_)
IntOf(s) == IF Len(s) = 0 THEN 0
            ELSE IntOf(SubSeq(s, 1, Len(s) - 1)) * 10 + DigitVal(s[Len(s)])

(* str.split(sep): the pieces between the separators, empty ones kept.     *)
RECURSIVE Split(_, _)
Split(s, sep) ==
  IF \E i \in 1..Len(s) : s[i] = sep
  THEN LET i == CHOOSE k \in 1..Len(s) :
                  s[k] = sep /\ \A j \in 1..(k - 1) : s[j] # sep
       IN  << SubSeq(s, 1, i - 1) >> \o Split(SubSeq(s, i + 1, Len(s)), sep)
  ELSE << s >>

(* s[:n]                                                                   *)
Take(s, n) == SubSeq(s, 1, IF Len(s) < n THEN Len(s) ELSE n)

(* ansi_pattern.match(line, pos): the pattern is ESC, "[", a greedy run of *)
(* digits and semicolons (group 1), "m".  RunEnd is the 0-based end of    *)
(* the run that starts at j.                                               *)
RECURSIVE RunEnd(_, _)
RunEnd(line, j) ==
  IF j < Len(line) /\ (IsDigit(At(line, j)) \/ At(line, j) = ";")
  THEN RunEnd(line, j + 1) ELSE j

ansi_match(line, pos) ==
  /\ pos + 2 < Len(line)
  /\ At(line, pos) = ESC
  /\ At(line, pos + 1) = "["
  /\ RunEnd(line, pos + 2) < Len(line)
  /\ At(line, RunEnd(line, pos + 2)) = "m"

(* match.end(1): the end of the codes, before the final "m".               *)
match_end_of_codes(line, pos) == RunEnd(line, pos + 2)

(* match.group(1) and match.end()                                          *)
match_group(line, pos) == SubSeq(line, pos + 3, RunEnd(line, pos + 2))
match_end(line, pos) == RunEnd(line, pos + 2) + 1

RECURSIVE IntsOf(_)
IntsOf(parts) ==
  IF Len(parts) = 0 THEN << >>
  ELSE (IF Len(Head(parts)) = 0 THEN << >> ELSE << IntOf(Head(parts)) >>)
       \o IntsOf(Tail(parts))

(* codes = [int(c) for c in codes_str.split(';') if c] if codes_str else [0] *)
codes_of(codes_str) ==
  IF Len(codes_str) = 0 THEN << 0 >> ELSE IntsOf(Split(codes_str, ";"))

InitAttr == [fg |-> None, bg |-> None, bold |-> 0]

(* The while loop over the codes of one escape sequence (lines 95-130).    *)
RECURSIVE apply_codes(_, _, _)
apply_codes(codes, i, st) ==
  IF i < Len(codes)
  THEN LET c == At(codes, i) IN
       IF c = 0 THEN apply_codes(codes, i + 1, InitAttr)
       ELSE IF c = 1 THEN apply_codes(codes, i + 1, [st EXCEPT !.bold = 1])
       ELSE IF c = 22 THEN apply_codes(codes, i + 1, [st EXCEPT !.bold = 0])
       ELSE IF c = 38 /\ i + 2 < Len(codes) /\ At(codes, i + 1) = 5
            THEN apply_codes(codes, i + 3,
                   [st EXCEPT !.fg = get_256_color(At(codes, i + 2))])
       ELSE IF c = 38 /\ i + 4 < Len(codes) /\ At(codes, i + 1) = 2
            THEN apply_codes(codes, i + 5,
                   [st EXCEPT !.fg = Hex02(At(codes, i + 2))
                                     \o Hex02(At(codes, i + 3))
                                     \o Hex02(At(codes, i + 4))])
       ELSE IF c = 48 /\ i + 2 < Len(codes) /\ At(codes, i + 1) = 5
            THEN apply_codes(codes, i + 3,
                   [st EXCEPT !.bg = get_256_color(At(codes, i + 2))])
       ELSE IF c = 48 /\ i + 4 < Len(codes) /\ At(codes, i + 1) = 2
            THEN apply_codes(codes, i + 5,
                   [st EXCEPT !.bg = Hex02(At(codes, i + 2))
                                     \o Hex02(At(codes, i + 3))
                                     \o Hex02(At(codes, i + 4))])
       ELSE IF c = 39 THEN apply_codes(codes, i + 1, [st EXCEPT !.fg = None])
       ELSE IF c = 49 THEN apply_codes(codes, i + 1, [st EXCEPT !.bg = None])
       ELSE IF 30 <= c /\ c <= 37
            THEN apply_codes(codes, i + 1,
                   [st EXCEPT !.fg = At(COLORS_16, c - 30)])
       ELSE IF 40 <= c /\ c <= 47
            THEN apply_codes(codes, i + 1,
                   [st EXCEPT !.bg = At(COLORS_16, c - 40)])
       ELSE IF 90 <= c /\ c <= 97
            THEN apply_codes(codes, i + 1,
                   [st EXCEPT !.fg = At(COLORS_16, c - 90 + 8)])
       ELSE IF 100 <= c /\ c <= 107
            THEN apply_codes(codes, i + 1,
                   [st EXCEPT !.bg = At(COLORS_16, c - 100 + 8)])
       ELSE apply_codes(codes, i + 1, st)
  ELSE st

BlankCell == << " ", None, None, 0 >>

(* Padding loops that append nothing.                                      *)
NoPadding(n) == << >>

RECURSIVE Blanks(_)
Blanks(n) == IF n <= 0 THEN << >> ELSE << BlankCell >> \o Blanks(n - 1)

(* One row of the for loop (lines 81-143): the scan of the line, then the  *)
(* padding of the remaining columns.  Yields the grown cell list and the   *)
(* attribute state the next row starts with.                               *)
RECURSIVE parse_row(_, _, _, _, _)
parse_row(line, pos, col, st, cells) ==
  IF col < COLS /\ pos < Len(line)
  THEN IF ansi_match(line, pos)
       THEN parse_row(line, match_end(line, pos), col,
                      apply_codes(codes_of(match_group(line, pos)), 0, st),
                      cells)
       ELSE parse_row(line, pos + 1, col + 1, st,
                      Append(cells, << At(line, pos), st.fg, st.bg, st.bold >>))
  ELSE [cells |-> cells \o Blanks(COLS - col), st |-> st]

RECURSIVE parse_rows(_, _, _, _)
parse_rows(lines, row, st, cells) ==
  IF row < ROWS
  THEN LET line == IF row < Len(lines) THEN At(lines, row) ELSE << >>
           r == parse_row(line, 0, 0, st, cells)
       IN  parse_rows(lines, row + 1, r.st, r.cells)
  ELSE cells

parse_ansi_to_cells(ansi) ==
  LET lines == Take(Split(ansi, "\n"), ROWS)
      cells == parse_rows(lines, 0, InitAttr, << >>)
  IN  cells \o Blanks(TOTAL_CELLS - Len(cells))

(***************************************************************************)
(* capture_btop_frame.  An outcome of subprocess.run is either a raised    *)
(* exception (TimeoutExpired after 5 s, tmux missing, ...) or a completed  *)
(* process with a return code and its stdout.                              *)
(***************************************************************************)
NoText == << "None" >>

IsSpace(ch) == ch \in {" ", "\n", "\t", "\r"}

(* result.stdout without the strip().                                     *)
is_empty(text) == Len(text) = 0

(* result.stdout.strip(), as far as its truth value goes                   *)
strip_is_empty(text) == \A i \in 1..Len(text) : IsSpace(text[i])

(* capture_btop_frame without the returncode test of lines 206-207.        *)
capture_ignoring_returncode(o) ==
  IF o.kind = "raise" THEN NoText
  ELSE IF strip_is_empty(o.stdout) THEN NoText ELSE o.stdout

capture_btop_frame(o) ==
  IF o.kind = "raise" THEN NoText
  ELSE IF o.returncode # 0 THEN NoText
  ELSE IF strip_is_empty(o.stdout) THEN NoText ELSE o.stdout

(* The pane contents the model lets tmux return.                           *)
Raw1 == << "A", "B", "\n", "C", "D" >>
Raw2 == << ESC, "[", "3", "1", "m", "A", ESC, "[", "0", "m", "B", "\n",
           "C", "D" >>
Raw3 == << ESC, "[", "3", "1", "m", "A", ESC, "[", "m", "B", "\n",
           ESC, "[", "1", "m", "C", ESC, "[", "2", "2", ";", "4", "4", "m",
           "D" >>
RawBlank == << " ", "\n", " " >>

RawInputs == {Raw1, Raw2, Raw3, RawBlank}


CaptureOutcomes ==
  {[kind |-> "raise", returncode |-> 0, stdout |-> << >>],
   [kind |-> "exit", returncode |-> 1, stdout |-> Raw1]}
  \cup {[kind |-> "exit", returncode |-> 0, stdout |-> r] :
          r \in RawInputs \cup {<< >>}}

NoResult == [kind |-> "none", returncode |-> 0, stdout |-> << >>]

(***************************************************************************)
(* State.                                                                  *)
(***************************************************************************)
Conns == 1..NConn

(* cells_lock is held by nobody, by the producer or by a connection.       *)
Unlocked == 0
Producer == -1

(* Names of list objects of cells: at most one the slot refers to, one the *)
(* producer has built, one per handler's local `cells`.                    *)
Ids == 1..(NConn + 2)

NoMsg == [t |-> "none"]
NoPath == ""
Paths == {"/stream", "/frame"}

VARIABLES
  heap,           \* Ids -> the cells of that list object, NoFrame if no object
  current_cells,  \* the shared slot: a reference, NoRef for None
  new_cells,      \* frame_updater's local new_cells (a reference)
  cells,          \* each handler's local cells (a reference)
  cells_lock,     \* Unlocked, Producer or the connection holding it
  ppc,            \* frame_updater's position
  result,         \* what subprocess.run gave capture_btop_frame
  frame_count,    \* frame_updater's local frame_count
  pc,             \* each handler thread's position
  path,           \* self.path of the request
  closed,         \* the peer has closed or reset the connection
  last_cells,     \* handle_sse's local last_cells (a deep copy: a value)
  sent,           \* a message has been written on this connection
  msg,            \* the data being written to self.wfile
  recon,          \* the frame the viewer holds: every message received, applied
  parsed,         \* parse_ansi_to_cells, tabulated on the pane contents
  pane,           \* a text for parse_ansi_to_cells, as the pieces it is made of
  sgr,            \* the codes of one escape sequence for parse_ansi_to_cells
  out_cells,      \* << >>, or << what parse_ansi_to_cells returned >>
  index,          \* an argument n for get_256_color
  color           \* what get_256_color returned for index

vars == << heap, current_cells, new_cells, cells, cells_lock, ppc, result,
           frame_count, pc, path, closed, last_cells, sent, msg, recon,
           parsed, pane, sgr, out_cells, index, color >>

refVars == << heap, current_cells, new_cells, cells >>
prodVars == << ppc, result, frame_count >>
connVars == << pc, path, closed, last_cells, sent, msg, recon >>

(* The arguments and results of the two pure functions taken on their own. *)
pureVars == << pane, sgr, out_cells, index, color >>
serverVars == << refVars, cells_lock, prodVars, connVars, parsed >>

(* parse_ansi_to_cells is a pure function: the model evaluates it once on  *)
(* every pane content, in Init, and frame_updater's call looks the result  *)
(* up in this table, which no step changes.                                *)

Init ==
  /\ heap = [i \in Ids |-> NoFrame]
  /\ current_cells = NoRef
  /\ new_cells = NoRef
  /\ cells = [v \in Conns |-> NoRef]
  /\ cells_lock = Unlocked
  /\ ppc = "capture"
  /\ result = NoResult
  /\ frame_count = 0
  /\ pc = [v \in Conns |-> "idle"]
  /\ path = [v \in Conns |-> NoPath]
  /\ closed = [v \in Conns |-> FALSE]
  /\ last_cells = [v \in Conns |-> NoFrame]
  /\ sent = [v \in Conns |-> FALSE]
  /\ msg = [v \in Conns |-> NoMsg]
  /\ recon = [v \in Conns |-> NoFrame]
  /\ parsed = [r \in RawInputs |-> parse_ansi_to_cells(r)]
  /\ pane = << >>
  /\ sgr = << >>
  /\ out_cells = << >>
  /\ index = 0
  /\ color = None

(***************************************************************************)
(* List objects.  A list lives as long as a reference to it does.  The     *)
(* name of an object carries no meaning, only which references are equal   *)
(* does; after every step the live objects are named 1, 2, ... in the order *)
(* current_cells, new_cells, cells[1], cells[2], ... of their first        *)
(* reference, so that one heap has one representation.                     *)
(***************************************************************************)
Roles(cur, new, cs) == << cur, new >> \o [v \in 1..NConn |-> cs[v]]

NameOf(r, i) ==
  IF i = NoRef THEN NoRef
  ELSE LET first == CHOOSE k \in 1..Len(r) :
                      r[k] = i /\ \A j \in 1..(k - 1) : r[j] # i
       IN  Cardinality({r[j] : j \in 1..first} \ {NoRef})

Place(h, cur, new, cs) ==
  LET r == Roles(cur, new, cs)
      live == {r[j] : j \in 1..Len(r)} \ {NoRef}
  IN  /\ heap' = [k \in Ids |->
                    IF \E i \in live : NameOf(r, i) = k
                    THEN h[CHOOSE i \in live : NameOf(r, i) = k]
                    ELSE NoFrame]
      /\ current_cells' = NameOf(r, cur)
      /\ new_cells' = NameOf(r, new)
      /\ cells' = [v \in Conns |-> NameOf(r, cs[v])]

(* The object a reference leads to.                                        *)
Deref(h, ref) == IF ref = NoRef THEN NoFrame ELSE h[ref]

(* A parser that refills the list the slot refers to.                      *)
refill_current_list(cur, cs) == IF cur = NoRef THEN 1 ELSE cur

(* parse_ansi_to_cells returns a new list: an object no reference leads to. *)
fresh_list(cur, cs) ==
  CHOOSE i \in Ids :
    /\ i # cur /\ \A v \in Conns : cs[v] # i
    /\ \A j \in Ids : (j # cur /\ \A v \in Conns : cs[v] # j) => i <= j

(***************************************************************************)
(* frame_updater (lines 214-240).                                          *)
(***************************************************************************)
(* frame_count += 1; at ENFORCE_EVERY enforce_terminal_size() runs on this *)
(* thread; then time.sleep(REFRESH_INTERVAL) and the next cycle.           *)
after_count(n) == IF n + 1 >= ENFORCE_EVERY THEN "enforce" ELSE "capture"

(* subprocess.run inside capture_btop_frame returns or raises (lines     *)
(* 200-205); the thread was suspended in it for up to the 5 s timeout.     *)
P_CaptureOf(outcomes) ==
  /\ ppc = "capture"
  /\ \E o \in outcomes : result' = o
  /\ ppc' = "captured"
  /\ UNCHANGED << refVars, cells_lock, frame_count >>
  /\ UNCHANGED << connVars, parsed, pureVars >>

P_Capture == P_CaptureOf(CaptureOutcomes)

(* The rest of capture_btop_frame (lines 206-211), then lines 227-228 or,  *)
(* when the capture gave nothing, lines 233-240.                           *)
P_Parse ==
  /\ ppc = "captured"
  /\ LET raw_frame == capture_btop_frame(result) IN
     IF raw_frame # NoText
     THEN /\ \E id \in {fresh_list(current_cells, cells)} :
            \E new \in {parsed[raw_frame]} :
              Place([heap EXCEPT ![id] = new], current_cells, id, cells)
          /\ ppc' = "acquire"
          /\ UNCHANGED frame_count
     ELSE /\ ppc' = after_count(frame_count)
          /\ frame_count' = frame_count + 1
          /\ UNCHANGED refVars
  /\ result' = NoResult
  /\ UNCHANGED cells_lock
  /\ UNCHANGED << connVars, parsed, pureVars >>

(* with cells_lock: (entry, line 229)                                      *)
P_Acquire ==
  /\ ppc = "acquire"
  /\ cells_lock = Unlocked
  /\ cells_lock' = Producer
  /\ ppc' = "store"
  /\ UNCHANGED << refVars, result, frame_count >>
  /\ UNCHANGED << connVars, parsed, pureVars >>

(* current_cells = new_cells, the with block is left (line 230), then      *)
(* lines 233-240.                                                          *)
P_Store ==
  /\ ppc = "store"
  /\ Place(heap, new_cells, new_cells, cells)
  /\ cells_lock' = Unlocked
  /\ ppc' = after_count(frame_count)
  /\ frame_count' = frame_count + 1
  /\ UNCHANGED result
  /\ UNCHANGED << connVars, parsed, pureVars >>

(* enforce_terminal_size: external commands only; every failure is logged  *)
(* and swallowed (lines 163-194).  Then frame_count = 0.                   *)
P_Enforce ==
  /\ ppc = "enforce"
  /\ frame_count' = 0
  /\ ppc' = "capture"
  /\ UNCHANGED << refVars, cells_lock, result >>
  /\ UNCHANGED << connVars, parsed, pureVars >>

ProducerStep == P_Capture \/ P_Parse \/ P_Acquire \/ P_Store \/ P_Enforce

(***************************************************************************)
(* handle_sse's delta encoder (lines 291-318).                             *)
(***************************************************************************)
(* new[0] != old[0]: the characters alone.                                 *)
char_differs(new, old) == new[1] # old[1]

(* new != old on two cells: Python list inequality, all four fields.       *)
cell_differs(new, old) == new # old

Min(a, b) == IF a < b THEN a ELSE b

(* The same loop with deltas.append([i] + old).                            *)
RECURSIVE delta_loop_old_values(_, _, _, _)
delta_loop_old_values(cs, last, i, deltas) ==
  IF i < Min(Len(cs), Len(last))
  THEN delta_loop_old_values(cs, last, i + 1,
         IF cell_differs(At(cs, i), At(last, i))
         THEN Append(deltas, << i >> \o At(last, i)) ELSE deltas)
  ELSE deltas

(* for i, (new, old) in enumerate(zip(cells, last_cells)):                 *)
(*     if new != old: deltas.append([i] + new)                             *)
RECURSIVE delta_loop(_, _, _, _)
delta_loop(cs, last, i, deltas) ==
  IF i < Min(Len(cs), Len(last))
  THEN delta_loop(cs, last, i + 1,
         IF cell_differs(At(cs, i), At(last, i))
         THEN Append(deltas, << i >> \o At(cs, i)) ELSE deltas)
  ELSE deltas

(* The same loop started at the second cell.                               *)
compute_deltas_from_1(cs, last) == delta_loop(cs, last, 1, << >>)

compute_deltas(cs, last) == delta_loop(cs, last, 0, << >>)

(* len(deltas) >= TOTAL_CELLS * 0.5                                        *)
at_least_half(n) == 2 * n >= TOTAL_CELLS

(* len(deltas) > TOTAL_CELLS * 0.5                                         *)
over_half(n) == 2 * n > TOTAL_CELLS

full_message(cs) == [t |-> "f", c |-> cs]
delta_message(deltas) == [t |-> "d", d |-> deltas]

(* handle_sse without the len(deltas) == 0 branch of lines 304-306.        *)
sse_message_unsuppressed(cs, last) ==
  IF last = NoFrame THEN full_message(cs)
  ELSE LET deltas == compute_deltas(cs, last) IN
       IF over_half(Len(deltas)) THEN full_message(cs)
       ELSE delta_message(deltas)

(* What one cycle of handle_sse writes, NoMsg when it writes nothing.      *)
sse_message(cs, last) ==
  IF last = NoFrame THEN full_message(cs)
  ELSE LET deltas == compute_deltas(cs, last) IN
       IF Len(deltas) = 0 THEN NoMsg
       ELSE IF over_half(Len(deltas)) THEN full_message(cs)
       ELSE delta_message(deltas)

(* A cycle that writes and keeps no snapshot.                              *)
no_copy(cs) == NoFrame

(* last_cells = [c[:] for c in cells]                                      *)
deep_copy(cs) == [i \in 1..Len(cs) |-> cs[i]]

(* serve_current_frame's body (lines 329-332)                              *)
frame_response(ref, h) ==
  IF ref = NoRef THEN [t |-> "error"] ELSE full_message(h[ref])

(***************************************************************************)
(* The viewer's side of /stream: a full message replaces the frame, a      *)
(* delta message overwrites the listed indices.                            *)
(***************************************************************************)
RECURSIVE apply_deltas(_, _)
apply_deltas(frame, deltas) ==
  IF Len(deltas) = 0 THEN frame
  ELSE LET e == Head(deltas) IN
       apply_deltas([frame EXCEPT ![e[1] + 1] = SubSeq(e, 2, 5)], Tail(deltas))

apply_message(frame, m) ==
  IF m.t = "f" THEN m.c
  ELSE IF m.t = "d" THEN apply_deltas(frame, m.d)
  ELSE frame

(***************************************************************************)
(* One handler thread per connection (ThreadedHTTPServer, do_GET).         *)
(* Positions: "idle" no thread (none yet, or a /frame request that was     *)
(* answered), "headers", "loop" before the with block (asleep or waiting   *)
(* for the lock), "locked" inside it, "write" in self.wfile.write, "done"  *)
(* a /stream thread that an exception ended.                               *)
(***************************************************************************)
(* A snapshot that outlives the thread (an attribute of the handler class  *)
(* instead of a local of handle_sse).                                      *)
finish_keeping_snapshot(v) ==
  /\ pc' = [pc EXCEPT ![v] = IF path[v] = "/stream" THEN "done" ELSE "idle"]
  /\ path' = [path EXCEPT ![v] = IF path[v] = "/stream" THEN @ ELSE NoPath]
  /\ closed' = [closed EXCEPT ![v] = FALSE]
  /\ sent' = [sent EXCEPT ![v] = FALSE]
  /\ msg' = [msg EXCEPT ![v] = NoMsg]
  /\ recon' = [recon EXCEPT ![v] = NoFrame]
  /\ Place(heap, current_cells, new_cells, [cells EXCEPT ![v] = NoRef])
  /\ UNCHANGED last_cells

(* A failure that takes every connection's snapshot with it.               *)
finish_clearing_all(v) ==
  /\ pc' = [pc EXCEPT ![v] = IF path[v] = "/stream" THEN "done" ELSE "idle"]
  /\ path' = [path EXCEPT ![v] = IF path[v] = "/stream" THEN @ ELSE NoPath]
  /\ closed' = [closed EXCEPT ![v] = FALSE]
  /\ last_cells' = [w \in Conns |-> NoFrame]
  /\ sent' = [sent EXCEPT ![v] = FALSE]
  /\ msg' = [msg EXCEPT ![v] = NoMsg]
  /\ recon' = [recon EXCEPT ![v] = NoFrame]
  /\ Place(heap, current_cells, new_cells, [cells EXCEPT ![v] = NoRef])

(* The thread ends: its locals go, and so does the connection.             *)
finish(v) ==
  /\ pc' = [pc EXCEPT ![v] = IF path[v] = "/stream" THEN "done" ELSE "idle"]
  /\ path' = [path EXCEPT ![v] = IF path[v] = "/stream" THEN @ ELSE NoPath]
  /\ closed' = [closed EXCEPT ![v] = FALSE]
  /\ last_cells' = [last_cells EXCEPT ![v] = NoFrame]
  /\ sent' = [sent EXCEPT ![v] = FALSE]
  /\ msg' = [msg EXCEPT ![v] = NoMsg]
  /\ recon' = [recon EXCEPT ![v] = NoFrame]
  /\ Place(heap, current_cells, new_cells, [cells EXCEPT ![v] = NoRef])

(* A request arrives and gets a thread of its own; do_GET dispatches on    *)
(* the path.  handle_sse first sends its response headers.                 *)
AcceptPath(v, p) ==
  /\ pc[v] \in {"idle", "done"}
  /\ path' = [path EXCEPT ![v] = p]
  /\ pc' = [pc EXCEPT ![v] = IF p = "/stream" THEN "headers" ELSE "loop"]
  /\ UNCHANGED << refVars, cells_lock, closed, last_cells, sent, msg, recon >>
  /\ UNCHANGED << prodVars, parsed, pureVars >>

Accept(v) == \E p \in Paths : AcceptPath(v, p)

(* The peer of a /stream connection closes or resets it; the viewer and    *)
(* the frame it had reconstructed are gone.  (A /frame handler ends after  *)
(* its one write whether the write succeeds or not.)                       *)
PeerClose(v) ==
  /\ pc[v] \in {"headers", "loop", "locked", "write"}
  /\ path[v] = "/stream"
  /\ ~closed[v]
  /\ closed' = [closed EXCEPT ![v] = TRUE]
  /\ recon' = [recon EXCEPT ![v] = NoFrame]
  /\ UNCHANGED << refVars, cells_lock, pc, path, last_cells, sent, msg >>
  /\ UNCHANGED << prodVars, parsed, pureVars >>

(* Lines 272-279: the headers are written outside the try; a failed write  *)
(* ends the thread all the same.                                           *)
SendHeaders(v) ==
  /\ pc[v] = "headers"
  /\ \/ /\ pc' = [pc EXCEPT ![v] = "loop"]
        /\ UNCHANGED << refVars, path, closed, last_cells, sent, msg, recon >>
     \/ /\ closed[v]
        /\ finish(v)
  /\ UNCHANGED cells_lock
  /\ UNCHANGED << prodVars, parsed, pureVars >>

(* with cells_lock: (entry, lines 283 and 326).  The sleep that ended the  *)
(* previous cycle is over when the thread asks for the lock.               *)
Acquire(v) ==
  /\ pc[v] = "loop"
  /\ cells_lock = Unlocked
  /\ cells_lock' = v
  /\ pc' = [pc EXCEPT ![v] = "locked"]
  /\ UNCHANGED << refVars, path, closed, last_cells, sent, msg, recon >>
  /\ UNCHANGED << prodVars, parsed, pureVars >>

(* A with block that reaches down to the write and the sleep.              *)
lock_kept_by_reader(v) == v

(* The lock's holder once the with block is left.                          *)
lock_after_read(v) == Unlocked

(* cells = current_cells, the with block is left, and the thread decides   *)
(* what to write: lines 284-318 up to the write, or lines 327-340.  The    *)
(* local cells is read again only by the deep copy that follows a write on *)
(* /stream, so the model keeps the reference for that long and no longer.  *)
Read(v) ==
  /\ pc[v] = "locked"
  /\ cells_lock' = lock_after_read(v)
  /\ \E m \in {IF path[v] = "/frame"
               THEN frame_response(current_cells, heap)
               ELSE IF current_cells = NoRef THEN NoMsg
               ELSE sse_message(heap[current_cells], last_cells[v])} :
       /\ msg' = [msg EXCEPT ![v] = m]
       /\ pc' = [pc EXCEPT ![v] = IF m = NoMsg THEN "loop" ELSE "write"]
       /\ Place(heap, current_cells, new_cells,
                [cells EXCEPT ![v] = IF m = NoMsg \/ path[v] = "/frame"
                                     THEN NoRef ELSE current_cells])
  /\ UNCHANGED << path, closed, last_cells, sent, recon >>
  /\ UNCHANGED << prodVars, parsed, pureVars >>

(* self.wfile.write / flush returns.  On /stream the snapshot is taken     *)
(* next and the thread sleeps; on /frame the handler is finished.  A write *)
(* to a connection the peer has left may still be accepted by the kernel.  *)
WriteOk(v) ==
  /\ pc[v] = "write"
  /\ IF path[v] = "/stream"
     THEN /\ recon' = [recon EXCEPT ![v] =
                         IF closed[v] THEN @ ELSE apply_message(@, msg[v])]
          /\ last_cells' = [last_cells EXCEPT ![v] = deep_copy(heap[cells[v]])]
          /\ sent' = [sent EXCEPT ![v] = TRUE]
          /\ msg' = [msg EXCEPT ![v] = NoMsg]
          /\ pc' = [pc EXCEPT ![v] = "loop"]
          /\ Place(heap, current_cells, new_cells,
                   [cells EXCEPT ![v] = NoRef])
          /\ UNCHANGED << path, closed >>
     ELSE finish(v)
  /\ UNCHANGED cells_lock
  /\ UNCHANGED << prodVars, parsed, pureVars >>

(* The write raises BrokenPipeError or ConnectionResetError (line 321).    *)
WriteFail(v) ==
  /\ pc[v] = "write"
  /\ closed[v]
  /\ finish(v)
  /\ UNCHANGED cells_lock
  /\ UNCHANGED << prodVars, parsed, pureVars >>

HandlerStep(v) ==
  SendHeaders(v) \/ Acquire(v) \/ Read(v) \/ WriteOk(v) \/ WriteFail(v)

Next ==
  \/ ProducerStep
  \/ \E v \in Conns : Accept(v) \/ PeerClose(v) \/ HandlerStep(v)

Spec == Init /\ [][Next]_vars

(***************************************************************************)
(* Scheduling.  Every thread that can run does run: the producer and each  *)
(* handler are threads of their own, and a write to a connection whose     *)
(* peer is reading returns (or fails, once the peer has left).  The lock   *)
(* is held for one assignment by threads that then sleep for 0.5 s or 1 s, *)
(* so a thread that waits for it gets it.  A connection the peer has left  *)
(* may accept some writes, not all of them: one of them fails.  Requests   *)
(* arriving, peers leaving and what the pane shows are the environment's:  *)
(* nothing forces them.                                                    *)
(***************************************************************************)
Fairness ==
  /\ WF_vars(ProducerStep)
  /\ SF_vars(P_Acquire)
  /\ \A v \in Conns :
       WF_vars(HandlerStep(v)) /\ SF_vars(Acquire(v)) /\ SF_vars(WriteFail(v))

(* The same threads under a narrower environment: /stream requests only,  *)
(* and a pane that shows one of two contents or cannot be captured.        *)
StreamOutcomes ==
  {[kind |-> "raise", returncode |-> 0, stdout |-> << >>]}
  \cup {[kind |-> "exit", returncode |-> 0, stdout |-> r] : r \in {Raw1, Raw2}}

StreamNext ==
  \/ P_CaptureOf(StreamOutcomes) \/ P_Parse \/ P_Acquire \/ P_Store
  \/ P_Enforce
  \/ \E v \in Conns :
        \/ AcceptPath(v, "/stream") \/ PeerClose(v)
        \/ SendHeaders(v) \/ Acquire(v) \/ Read(v) \/ WriteOk(v)
        \/ WriteFail(v)

FairSpec == Init /\ [][StreamNext]_vars /\ Fairness

(***************************************************************************)
(* parse_ansi_to_cells on its own.  The text is put together from pieces:  *)
(* a character (an escape character that starts no sequence is one), a    *)
(* line break, or a whole escape sequence; every text of up to MaxPieces   *)
(* pieces is parsed.                                                       *)
(***************************************************************************)
MaxPieces == 6

Styled == << ESC, "[", "1", ";", "3", "1", ";", "4", "4", "m" >>
ResetEmpty == << ESC, "[", "m" >>
ResetZero == << ESC, "[", "0", "m" >>
LineBreak == << "\n" >>

LoneEsc == << ESC >>

Pieces ==
  {<< "A" >>, << "B" >>, LoneEsc, LineBreak, Styled, ResetEmpty, ResetZero}

(* "".join(pieces)                                                         *)
RECURSIVE Flatten(_)
Flatten(ps) == IF Len(ps) = 0 THEN << >> ELSE Head(ps) \o Flatten(Tail(ps))

(* The pane's text grows by one piece.                                     *)
TypePiece(p) ==
  /\ Len(pane) < MaxPieces
  /\ pane' = Append(pane, p)
  /\ out_cells' = << >>
  /\ UNCHANGED << sgr, index, color >>
  /\ UNCHANGED serverVars

(* new_cells = parse_ansi_to_cells(raw_frame)   (line 228)                 *)
ParsePane ==
  /\ out_cells = << >>
  /\ out_cells' = << parse_ansi_to_cells(Flatten(pane)) >>
  /\ UNCHANGED << pane, sgr, index, color >>
  /\ UNCHANGED serverVars

ParseNext == ParsePane \/ \E p \in Pieces : TypePiece(p)

ParseSpec == Init /\ [][ParseNext]_vars

(***************************************************************************)
(* parse_ansi_to_cells on one escape sequence: the text is ESC [ the codes *)
(* in decimal, joined by ";", then m, then the character "X"; every list   *)
(* of up to MaxCodes codes out of CodeValues is parsed.                    *)
(***************************************************************************)
MaxCodes == 5

CodeValues == {0, 1, 2, 5, 38, 48, 257}

(* str(n)                                                                  *)
RECURSIVE Dec(_)
Dec(n) == IF n < 10 THEN << At(DecDigit, n) >>
          ELSE Dec(n \div 10) \o << At(DecDigit, n % 10) >>

(* ";".join(str(c) for c in codes)                                         *)
RECURSIVE JoinCodes(_)
JoinCodes(codes) ==
  IF Len(codes) = 0 THEN << >>
  ELSE IF Len(codes) = 1 THEN Dec(Head(codes))
  ELSE Dec(Head(codes)) \o << ";" >> \o JoinCodes(Tail(codes))

CodeText(codes) == << ESC, "[" >> \o JoinCodes(codes) \o << "m", "X" >>

(* The escape sequence grows by one code.                                  *)
TypeCode(c) ==
  /\ Len(sgr) < MaxCodes
  /\ sgr' = Append(sgr, c)
  /\ out_cells' = << >>
  /\ UNCHANGED << pane, index, color >>
  /\ UNCHANGED serverVars

ParseCodes ==
  /\ out_cells = << >>
  /\ out_cells' = << parse_ansi_to_cells(CodeText(sgr)) >>
  /\ UNCHANGED << pane, sgr, index, color >>
  /\ UNCHANGED serverVars

CodeNext == ParseCodes \/ \E c \in CodeValues : TypeCode(c)

CodeSpec == Init /\ [][CodeNext]_vars

(***************************************************************************)
(* get_256_color on its own, on every index up to MaxIndex.                *)
(***************************************************************************)
MaxIndex == 260

NextIndex ==
  /\ index < MaxIndex
  /\ index' = index + 1
  /\ color' = None
  /\ UNCHANGED << pane, sgr, out_cells >>
  /\ UNCHANGED serverVars

LookupColor ==
  /\ color = None
  /\ color' = get_256_color(index)
  /\ UNCHANGED << pane, sgr, out_cells, index >>
  /\ UNCHANGED serverVars

ColorNext == LookupColor \/ NextIndex

ColorSpec == Init /\ [][ColorNext]_vars

(***************************************************************************)
(* What the claims speak of.                                               *)
(***************************************************************************)
(* A complete Frame: every cell of some pane content's parse.              *)
IsFrame(f) == Len(f) = TOTAL_CELLS /\ \E r \in RawInputs : f = parsed[r]

(* The Frame in the shared slot, NoFrame while current_cells is None.      *)
Slot == Deref(heap, current_cells)

(* The Frame handler v's local cells refers to.                            *)
Held(v) == Deref(heap, cells[v])

(* The Frame frame_updater's local new_cells refers to.                    *)
Built == Deref(heap, new_cells)

(* A /stream connection whose thread runs and whose peer is there.         *)
StreamOpen(v) ==
  /\ path[v] = "/stream"
  /\ pc[v] \in {"headers", "loop", "locked", "write"}
  /\ ~closed[v]

(* The step is handler v leaving its with block on /stream.                *)
StreamRead(v) == path[v] = "/stream" /\ pc[v] = "locked" /\ pc'[v] # "locked"

(* The step is handler v's write on /stream returning.                     *)
StreamWritten(v) == path[v] = "/stream" /\ pc[v] = "write" /\ pc'[v] = "loop"

(* The 0-based indices at which two frames differ, by definition.          *)
Differing(a, b) == {i \in 0..(TOTAL_CELLS - 1) : At(a, i) # At(b, i)}

(* The indices a delta list names.                                         *)
IndicesOf(d) == {d[j][1] : j \in 1..Len(d)}

(* subprocess.run raised or the process exited non-zero.                   *)
Failed(o) == o.kind = "raise" \/ (o.kind = "exit" /\ o.returncode # 0)

(***************************************************************************)
(* C1.  Delta correctness.  When handle_sse reads a Frame B that differs   *)
(* from its snapshot A in k cells, 1 <= k <= TOTAL_CELLS/2, it goes on to  *)
(* write one delta message: its entries name exactly the k differing       *)
(* indices, each entry is the index followed by B's four fields, applying  *)
(* the entries to A gives B; and when the write has returned the snapshot  *)
(* is B, the frame the handler read.                                       *)
(***************************************************************************)
C1_DeltaCorrect ==
  [][\A v \in Conns :
       LET A == last_cells[v]
           B == Slot
           k == Cardinality(Differing(A, B))
       IN  /\ ( /\ StreamRead(v) /\ A # NoFrame /\ B # NoFrame
                /\ 1 <= k /\ 2 * k <= TOTAL_CELLS )
              => /\ pc'[v] = "write"
                 /\ msg'[v].t = "d"
                 /\ Len(msg'[v].d) = k
                 /\ IndicesOf(msg'[v].d) = Differing(A, B)
                 /\ \A j \in 1..k :
                      msg'[v].d[j] = << msg'[v].d[j][1] >>
                                       \o At(B, msg'[v].d[j][1])
                 /\ apply_deltas(A, msg'[v].d) = B
                 /\ Held(v)' = B
           /\ (StreamWritten(v) /\ msg[v].t = "d")
              => /\ apply_deltas(A, msg[v].d) = Held(v)
                 /\ last_cells'[v] = Held(v)
                 /\ msg'[v] = NoMsg
    ]_vars

(* A delta of exactly half the cells is being written.                     *)
C1_Witness ==
  \E v \in Conns :
    /\ path[v] = "/stream" /\ pc[v] = "write"
    /\ msg[v].t = "d"
    /\ 2 * Len(msg[v].d) = TOTAL_CELLS
    /\ Cardinality(Differing(last_cells[v], Held(v))) = Len(msg[v].d)

(***************************************************************************)
(* C2.  Convergence.  Under fair scheduling, for every viewer: if from     *)
(* some point on the shared Frame no longer changes and the viewer stays   *)
(* connected, then from some point on the frame the viewer has             *)
(* reconstructed from the messages it received equals the shared Frame.    *)
(***************************************************************************)
C2_Converges ==
  \A v \in Conns :
    (<>[][Slot' = Slot]_vars /\ <>[](StreamOpen(v) /\ Slot # NoFrame))
      => <>[](recon[v] = Slot)

(* Two viewers at different points: one has the shared Frame, the other    *)
(* an older one.                                                           *)
C2_Witness ==
  \E v, w \in Conns :
    /\ v # w /\ StreamOpen(v) /\ StreamOpen(w)
    /\ sent[v] /\ sent[w]
    /\ recon[v] = Slot
    /\ recon[w] # NoFrame /\ recon[w] # Slot

(***************************************************************************)
(* C3.  The first message of a /stream connection is full: while nothing   *)
(* has been written on the connection, the message being written is the    *)
(* full message of the Frame read in that cycle, every cell of it; so a    *)
(* delta is written only on a connection that has been sent a message.     *)
(***************************************************************************)
C3_FirstIsFull ==
  \A v \in Conns :
    /\ (path[v] = "/stream" /\ pc[v] = "write" /\ ~sent[v])
       => /\ msg[v] = [t |-> "f", c |-> Held(v)]
          /\ Len(msg[v].c) = TOTAL_CELLS
    /\ (path[v] = "/stream" /\ msg[v].t = "d") => sent[v]

(* A first message is being written while another connection has been     *)
(* sent an earlier Frame.                                                  *)
C3_Witness ==
  \E v, w \in Conns :
    /\ v # w
    /\ path[v] = "/stream" /\ pc[v] = "write" /\ ~sent[v]
    /\ path[w] = "/stream" /\ sent[w]
    /\ last_cells[w] # NoFrame /\ last_cells[w] # Held(v)

(***************************************************************************)
(* C4.  Full-frame fallback.  When the Frame B read differs from the       *)
(* snapshot A in more than half of the cells, handle_sse goes on to write  *)
(* the full message of B, and when a full message has been written the     *)
(* snapshot is its cell list; when exactly half of the cells differ the    *)
(* message is a delta.                                                     *)
(***************************************************************************)
C4_FullFallback ==
  [][\A v \in Conns :
       LET A == last_cells[v]
           B == Slot
           k == Cardinality(Differing(A, B))
       IN  /\ (StreamRead(v) /\ A # NoFrame /\ B # NoFrame
                 /\ 2 * k > TOTAL_CELLS)
              => /\ pc'[v] = "write"
                 /\ msg'[v] = [t |-> "f", c |-> B]
                 /\ Held(v)' = B
           /\ (StreamRead(v) /\ A # NoFrame /\ B # NoFrame
                 /\ 2 * k = TOTAL_CELLS)
              => pc'[v] = "write" /\ msg'[v].t = "d"
           /\ (StreamWritten(v) /\ msg[v].t = "f")
              => last_cells'[v] = msg[v].c /\ msg[v].c = Held(v)
    ]_vars

(* One connection is writing the fallback while another, whose snapshot    *)
(* differs in exactly half of the cells, is writing a delta.               *)
C4_Witness ==
  \E v, w \in Conns :
    /\ v # w
    /\ path[v] = "/stream" /\ pc[v] = "write" /\ sent[v]
    /\ msg[v].t = "f"
    /\ 2 * Cardinality(Differing(last_cells[v], Held(v))) > TOTAL_CELLS
    /\ path[w] = "/stream" /\ pc[w] = "write" /\ msg[w].t = "d"
    /\ 2 * Cardinality(Differing(last_cells[w], Held(w))) = TOTAL_CELLS

(***************************************************************************)
(* C5.  No-change suppression.  When the Frame read equals the snapshot,   *)
(* handle_sse writes nothing in that cycle and the snapshot stays as it is; *)
(* so no message that changes nothing is ever being written.               *)
(***************************************************************************)
C5_NoChangeNoMessage ==
  [][\A v \in Conns :
       /\ (StreamRead(v) /\ last_cells[v] # NoFrame /\ Slot = last_cells[v])
          => /\ pc'[v] = "loop"
             /\ msg'[v] = NoMsg
             /\ last_cells'[v] = last_cells[v]
             /\ recon'[v] = recon[v]
       /\ (path[v] = "/stream" /\ pc[v] = "write" /\ sent[v])
          => Held(v) # last_cells[v]
    ]_vars

(* A handler that has sent the Frame now in the slot is about to read it.  *)
C5_Witness ==
  \E v \in Conns :
    /\ path[v] = "/stream" /\ pc[v] = "locked" /\ sent[v]
    /\ last_cells[v] # NoFrame /\ last_cells[v] = Slot
    /\ frame_count > 0

(***************************************************************************)
(* C6.  No torn reads.  The slot and every handler's local hold a complete *)
(* Frame or nothing; what a reader leaves its with block with is the slot  *)
(* as it was at that instant; the slot changes only in the producer's      *)
(* store, under the lock, which no reader holds then, and becomes the      *)
(* Frame the producer built; and the Frame a handler holds stays the same  *)
(* for as long as it holds it.                                             *)
(***************************************************************************)
C6_NoTornRead ==
  [][/\ Slot = NoFrame \/ IsFrame(Slot)
     /\ \A v \in Conns :
          /\ Held(v) = NoFrame \/ IsFrame(Held(v))
          /\ (StreamRead(v) /\ pc'[v] = "write") => Held(v)' = Slot
          /\ (path[v] = "/frame" /\ pc[v] = "locked" /\ pc'[v] # "locked")
             => msg'[v] = IF Slot = NoFrame THEN [t |-> "error"]
                          ELSE [t |-> "f", c |-> Slot]
          /\ (cells[v] # NoRef /\ cells'[v] # NoRef) => Held(v)' = Held(v)
          /\ pc[v] = "locked" => cells_lock = v /\ ppc # "store"
     /\ Slot' # Slot
        => /\ ppc = "store" /\ cells_lock = Producer
           /\ IsFrame(Built)
           /\ Slot' = Built
    ]_vars

(* A handler is writing a Frame the producer has since replaced.           *)
C6_Witness ==
  \E v \in Conns :
    /\ pc[v] = "write" /\ path[v] = "/stream"
    /\ Held(v) # NoFrame /\ Slot # NoFrame /\ Held(v) # Slot

(***************************************************************************)
(* C7.  A failed capture is not fatal.  When subprocess.run raised or      *)
(* exited non-zero, the producer's next step leaves the slot, the lock and *)
(* every list as they are and takes the producer to the end of the cycle   *)
(* (the next capture, or enforce_terminal_size before it); and no step     *)
(* takes the slot from a Frame back to None.                               *)
(***************************************************************************)
C7_CaptureFailureRetains ==
  [][/\ (ppc = "captured" /\ Failed(result) /\ ppc' # ppc)
        => /\ Slot' = Slot
           /\ UNCHANGED << refVars, cells_lock >>
           /\ ppc' \in {"capture", "enforce"}
           /\ frame_count' = frame_count + 1
     /\ Slot # NoFrame => Slot' # NoFrame
    ]_vars

(* A capture has failed while the slot holds a Frame.                      *)
C7_Witness ==
  /\ ppc = "captured" /\ Failed(result)
  /\ Slot # NoFrame
  /\ \E v \in Conns : StreamOpen(v) /\ sent[v]

(***************************************************************************)
(* C8.  Under fair scheduling, a /stream handler whose peer has closed the *)
(* connection ends.  (The claim as stated: it does so whether or not the   *)
(* shared Frame changes again or ever becomes available.)                  *)
(***************************************************************************)
C8_ClosedTerminates ==
  \A v \in Conns : closed[v] ~> (pc[v] = "done")

(***************************************************************************)
(* C9.  A step of handler v, its failing write included, leaves the slot,  *)
(* the producer and every other connection as they are: the other          *)
(* handlers' positions, snapshots, pending messages, held Frames, and what *)
(* their viewers have received.                                            *)
(***************************************************************************)
C9_FailureIsLocal ==
  [][\A v \in Conns :
       pc'[v] # pc[v]
       => /\ Slot' = Slot
          /\ Built' = Built
          /\ UNCHANGED prodVars
          /\ \A w \in Conns \ {v} :
               /\ pc'[w] = pc[w]
               /\ path'[w] = path[w]
               /\ closed'[w] = closed[w]
               /\ last_cells'[w] = last_cells[w]
               /\ sent'[w] = sent[w]
               /\ msg'[w] = msg[w]
               /\ recon'[w] = recon[w]
               /\ Held(w)' = Held(w)
    ]_vars

(* One /stream handler has ended while another, which has a snapshot, is   *)
(* writing to a viewer that is there.                                      *)
C9_Witness ==
  \E v, w \in Conns :
    /\ v # w
    /\ path[v] = "/stream" /\ pc[v] = "done"
    /\ StreamOpen(w) /\ pc[w] = "write" /\ sent[w]
    /\ last_cells[w] # NoFrame

(***************************************************************************)
(* C10.  Nobody waits for a slow viewer.  A handler holds cells_lock only  *)
(* inside its with block, never while it writes or sleeps, and there its   *)
(* next step (the reference read) can be taken at once; the producer holds *)
(* it only for its store, which can be taken at once; and a request can    *)
(* be accepted whatever the other handlers are doing.                      *)
(***************************************************************************)
C10_LockNeverHeldAcrossWrite ==
  /\ \A v \in Conns :
       /\ cells_lock = v => pc[v] = "locked" /\ ENABLED Read(v)
       /\ pc[v] # "locked" => cells_lock # v
       /\ pc[v] \in {"idle", "done"} => ENABLED Accept(v)
       /\ pc[v] = "write" => ENABLED WriteOk(v)
  /\ cells_lock = Producer => ppc = "store" /\ ENABLED P_Store
  /\ ppc # "store" => cells_lock # Producer

(* One viewer's write is outstanding while another handler holds the lock  *)
(* and the producer asks for it.                                           *)
C10_Witness ==
  \E v, w \in Conns :
    /\ v # w
    /\ pc[v] = "write" /\ path[v] = "/stream"
    /\ pc[w] = "locked" /\ cells_lock = w
    /\ ppc = "acquire"

(***************************************************************************)
(* The text of the pane, read piece by piece: where each character that is *)
(* shown stands, by counting line breaks and shown characters only.        *)
(***************************************************************************)
IsStyle(p) == p \in {Styled, ResetEmpty, ResetZero}
IsShown(p) == p # LineBreak /\ ~IsStyle(p)

(* The 0-based line of piece k, and its 0-based place among the shown      *)
(* characters of that line.                                                *)
LineOfPiece(ps, k) == Cardinality({j \in 1..(k - 1) : ps[j] = LineBreak})
PlaceOfPiece(ps, k) ==
  Cardinality({j \in 1..(k - 1) :
                 IsShown(ps[j]) /\ LineOfPiece(ps, j) = LineOfPiece(ps, k)})

(* The pieces shown as the (c+1)-th character of line r: one or none.      *)
ShownAt(ps, r, c) ==
  {k \in 1..Len(ps) :
     IsShown(ps[k]) /\ LineOfPiece(ps, k) = r /\ PlaceOfPiece(ps, k) = c}

(* The character the text has there, a space if it has none.               *)
CharAt(ps, r, c) ==
  IF ShownAt(ps, r, c) = {} THEN " "
  ELSE ps[CHOOSE k \in ShownAt(ps, r, c) : TRUE][1]

(* parse_ansi_to_cells has returned for the text of the pane.              *)
PaneParsed == Len(out_cells) = 1 /\ Len(sgr) = 0

(***************************************************************************)
(* C11.  Whatever the text, the parser returns exactly COLS * ROWS cells,  *)
(* and each row contributes exactly COLS of them: row r begins at index    *)
(* r * COLS, with the first shown character of line r or a blank.          *)
(***************************************************************************)
C11_FrameSize ==
  PaneParsed =>
    /\ Len(out_cells[1]) = COLS * ROWS
    /\ \A r \in 0..(ROWS - 1) :
         /\ Len(At(out_cells[1], r * COLS)) = 4
         /\ At(out_cells[1], r * COLS)[1] = CharAt(pane, r, 0)

(* A parsed text with more than ROWS lines, a line longer than COLS and a  *)
(* line made of escape sequences only.                                     *)
C11_Witness ==
  /\ PaneParsed
  /\ LineOfPiece(pane, Len(pane) + 1) >= ROWS
  /\ \E k \in 1..Len(pane) : IsShown(pane[k]) /\ PlaceOfPiece(pane, k) >= COLS
  /\ \E k \in 1..Len(pane) :
       /\ IsStyle(pane[k])
       /\ \A j \in 1..Len(pane) :
            LineOfPiece(pane, j) = LineOfPiece(pane, k) => ~IsShown(pane[j])

(* The style or reset sequence nearest before piece k, 0 if there is none. *)
LastStyleBefore(ps, k) ==
  IF \E j \in 1..(k - 1) : IsStyle(ps[j])
  THEN CHOOSE j \in 1..(k - 1) :
         IsStyle(ps[j]) /\ \A i \in (j + 1)..(k - 1) : ~IsStyle(ps[i])
  ELSE 0

IsReset(p) == p \in {ResetEmpty, ResetZero}

(***************************************************************************)
(* C12.  A reset clears the attributes of what follows.  For every cell    *)
(* made from a character of the text: when the nearest escape sequence     *)
(* before that character, on its line or an earlier one, is a reset (code  *)
(* 0 or no code at all), the cell has no foreground, no background and     *)
(* normal weight.                                                          *)
(***************************************************************************)
C12_ResetClears ==
  PaneParsed =>
    \A r \in 0..(ROWS - 1), c \in 0..(COLS - 1) :
      \A k \in ShownAt(pane, r, c) :
        (LastStyleBefore(pane, k) # 0
           /\ IsReset(pane[LastStyleBefore(pane, k)]))
        => At(out_cells[1], r * COLS + c) = << pane[k][1], None, None, 0 >>

(* A string of exactly 6 lowercase hexadecimal digits.                     *)
IsHex6(s) ==
  /\ Len(s) = 6
  /\ \A i \in 1..6 : \E d \in 0..15 : SubSeq(s, i, i) = At(HexDigit, d)

IsColor(x) == x = None \/ IsHex6(x)

(* parse_ansi_to_cells has returned for the escape sequence.               *)
CodesParsed == Len(out_cells) = 1 /\ Len(pane) = 0

(***************************************************************************)
(* C13.  In every cell the parser returns, foreground and background are   *)
(* each None or a string of exactly 6 lowercase hexadecimal digits,        *)
(* whatever the codes: 38;5;N and 48;5;N with N over 255 and 38;2;R;G;B    *)
(* and 48;2;R;G;B with a component over 255 included.                      *)
(***************************************************************************)
C13_ColorsAreHex6 ==
  CodesParsed =>
    \A i \in 1..Len(out_cells[1]) :
      IsColor(out_cells[1][i][2]) /\ IsColor(out_cells[1][i][3])

(* The codes of the three style pieces, as lines 96-127 read them: a reset *)
(* clears everything, Styled sets bold, red on blue.                       *)
StyleAfter(p, st) ==
  IF IsReset(p) THEN [fg |-> None, bg |-> None, bold |-> 0]
  ELSE [fg |-> "aa0000", bg |-> "0000aa", bold |-> 1]

(* Piece j is scanned: it is on one of the first ROWS lines and fewer than *)
(* COLS characters of its line stand before it.                            *)
IsScanned(ps, j) == LineOfPiece(ps, j) < ROWS /\ PlaceOfPiece(ps, j) < COLS

(* The attribute state in force when piece k is scanned: the scanned style *)
(* pieces before it, applied in order from the state at parse start.       *)
RECURSIVE StateBefore(_, _)
StateBefore(ps, k) ==
  IF k <= 1 THEN [fg |-> None, bg |-> None, bold |-> 0]
  ELSE LET st == StateBefore(ps, k - 1) IN
       IF IsStyle(ps[k - 1]) /\ IsScanned(ps, k - 1)
       THEN StyleAfter(ps[k - 1], st) ELSE st

(***************************************************************************)
(* C14.  Cell r * COLS + c is the (c+1)-th shown character of line r with  *)
(* the attribute state in force when it was scanned, or a blank cell when  *)
(* line r has no such character; so escape sequences take no column, and   *)
(* characters past the COLS-th of a line and lines past the ROWS-th are in *)
(* no cell.                                                                *)
(***************************************************************************)
C14_CellPlacement ==
  PaneParsed =>
    /\ Len(out_cells[1]) = COLS * ROWS
    /\ \A r \in 0..(ROWS - 1), c \in 0..(COLS - 1) :
         At(out_cells[1], r * COLS + c) =
           IF ShownAt(pane, r, c) = {} THEN << " ", None, None, 0 >>
           ELSE LET k == CHOOSE j \in ShownAt(pane, r, c) : TRUE
                    st == StateBefore(pane, k)
                IN  << pane[k][1], st.fg, st.bg, st.bold >>

(* A parsed text with a styled character behind an escape sequence, a line *)
(* longer than COLS and a later line shorter than COLS.                    *)
C14_Witness ==
  /\ PaneParsed
  /\ \E i \in 1..Len(out_cells[1]) :
       out_cells[1][i][1] \in {"A", "B"} /\ out_cells[1][i][4] = 1
  /\ \E k \in 1..Len(pane) : IsShown(pane[k]) /\ PlaceOfPiece(pane, k) >= COLS
  /\ \E r \in 1..(ROWS - 1) :
       ShownAt(pane, r, 0) # {} /\ ShownAt(pane, r, COLS - 1) = {}

(* The number a hexadecimal digit stands for, and the value of channel j   *)
(* (1 red, 2 green, 3 blue) of a 6-digit colour.                           *)
HexDigitVal(ch) == CHOOSE d \in 0..15 : At(HexDigit, d) = ch
Channel(s, j) ==
  16 * HexDigitVal(SubSeq(s, 2 * j - 1, 2 * j - 1))
    + HexDigitVal(SubSeq(s, 2 * j, 2 * j))

(***************************************************************************)
(* C15.  For every index N in 0..255 get_256_color returns a 6-digit       *)
(* colour: entry N of the base palette for N < 16; for 16 <= N < 232 the   *)
(* cube colour with channels ((N-16) div 36)*51, (((N-16) mod 36) div 6)*51 *)
(* and ((N-16) mod 6)*51; for N >= 232 the gray 8 + 10*(N-232) on all      *)
(* three channels; 0 gives 000000, 232 gives 080808, 255 gives eeeeee, and *)
(* every channel is in 0..255.                                             *)
(***************************************************************************)
C15_PaletteMapping ==
  (color # None /\ index <= 255) =>
    /\ IsHex6(color)
    /\ \A j \in 1..3 : Channel(color, j) \in 0..255
    /\ index < 16 => color = At(COLORS_16, index)
    /\ (16 <= index /\ index < 232) =>
         /\ Channel(color, 1) = ((index - 16) \div 36) * 51
         /\ Channel(color, 2) = (((index - 16) % 36) \div 6) * 51
         /\ Channel(color, 3) = ((index - 16) % 6) * 51
    /\ index >= 232 =>
         \A j \in 1..3 : Channel(color, j) = 8 + 10 * (index - 232)
    /\ index = 0 => color = "000000"
    /\ index = 232 => color = "080808"
    /\ index = 255 => color = "eeeeee"

(* The last index of the palette has been looked up.                       *)
C15_Witness == index = 255 /\ color = "eeeeee"

(* A step of the producer's capture / parse / store cycle.                 *)
ProducerCycle == P_Capture \/ P_Parse \/ P_Acquire \/ P_Store

(* enforce_terminal_size has been called and has not returned.             *)
EnforceInProgress == ppc = "enforce"

(***************************************************************************)
(* C16.  The geometry correction runs beside the producer: while           *)
(* enforce_terminal_size is in progress the producer can take the next     *)
(* step of its capture / parse / store cycle.                              *)
(***************************************************************************)
C16_MonitorIndependent == EnforceInProgress => ENABLED ProducerCycle

(* The codes read as the claim reads them.  38 or 48 followed by 5 takes   *)
(* the next code as N; followed by 2 it takes the next three as R, G, B;   *)
(* when the list ends first, the codes that are there are parameters all   *)
(* the same and nothing changes.  0 resets, 1 is bold, every other code of *)
(* CodeValues is unknown and ignored.                                      *)
RECURSIVE CodesAsClaimed(_, _, _)
CodesAsClaimed(codes, i, st) ==
  IF i >= Len(codes) THEN st
  ELSE LET c == At(codes, i) IN
       IF c \in {38, 48} /\ i + 1 < Len(codes) /\ At(codes, i + 1) = 5
       THEN IF i + 2 < Len(codes)
            THEN CodesAsClaimed(codes, i + 3,
                   IF c = 38
                   THEN [st EXCEPT !.fg = get_256_color(At(codes, i + 2))]
                   ELSE [st EXCEPT !.bg = get_256_color(At(codes, i + 2))])
            ELSE st
       ELSE IF c \in {38, 48} /\ i + 1 < Len(codes) /\ At(codes, i + 1) = 2
       THEN IF i + 4 < Len(codes)
            THEN LET rgb == Hex02(At(codes, i + 2)) \o Hex02(At(codes, i + 3))
                              \o Hex02(At(codes, i + 4))
                 IN  CodesAsClaimed(codes, i + 5,
                       IF c = 38 THEN [st EXCEPT !.fg = rgb]
                       ELSE [st EXCEPT !.bg = rgb])
            ELSE st
       ELSE IF c = 0
       THEN CodesAsClaimed(codes, i + 1, [fg |-> None, bg |-> None, bold |-> 0])
       ELSE IF c = 1
       THEN CodesAsClaimed(codes, i + 1, [st EXCEPT !.bold = 1])
       ELSE CodesAsClaimed(codes, i + 1, st)

(***************************************************************************)
(* C17.  The codes after 38 or 48 that belong to an extended colour (5;N   *)
(* or 2;R;G;B) are its parameters and act as nothing else, whether the     *)
(* sequence is complete or not: the character after the escape sequence    *)
(* carries the attributes the codes give when read that way, so a          *)
(* parameter 1 sets no bold, a parameter 0 resets nothing, and an          *)
(* incomplete 38/48 sequence changes no attribute.                         *)
(***************************************************************************)
C17_ExtendedColorParameters ==
  CodesParsed =>
    LET st == CodesAsClaimed(IF Len(sgr) = 0 THEN << 0 >> ELSE sgr, 0,
                             [fg |-> None, bg |-> None, bold |-> 0])
    IN  At(out_cells[1], 0) = << "X", st.fg, st.bg, st.bold >>

(* The entries [i] + B[i] for the indices of D from i on, in order.        *)
RECURSIVE EntriesFrom(_, _, _)
EntriesFrom(i, B, D) ==
  IF i >= TOTAL_CELLS THEN << >>
  ELSE (IF i \in D THEN << << i >> \o At(B, i) >> ELSE << >>)
       \o EntriesFrom(i + 1, B, D)

(* The one message that the Frame B read in a cycle and the snapshot A     *)
(* call for, NoMsg for none.                                               *)
MessageFor(B, A) ==
  IF B = NoFrame THEN NoMsg
  ELSE IF A = NoFrame THEN [t |-> "f", c |-> B]
  ELSE IF Differing(A, B) = {} THEN NoMsg
  ELSE IF 2 * Cardinality(Differing(A, B)) > TOTAL_CELLS
       THEN [t |-> "f", c |-> B]
  ELSE [t |-> "d", d |-> EntriesFrom(0, B, Differing(A, B))]

(***************************************************************************)
(* C18.  No backlog.  The message of a cycle is the one message that the   *)
(* Frame in the slot at that cycle's read and the snapshot call for, and   *)
(* nothing else enters it; a handler has a message only while it writes    *)
(* it, the message stays as it is until written, and once written it is    *)
(* gone and the snapshot is the Frame that was read: so the next cycle     *)
(* starts from what was last sent, and Frames the producer stored in       *)
(* between are in no message.                                              *)
(***************************************************************************)
C18_NoBacklog ==
  [][\A v \in Conns :
       /\ StreamRead(v) => msg'[v] = MessageFor(Slot, last_cells[v])
       /\ (path[v] = "/stream" /\ pc[v] # "write") => msg[v] = NoMsg
       /\ (path[v] = "/stream" /\ pc[v] = "write" /\ pc'[v] = "write")
          => msg'[v] = msg[v]
       /\ StreamWritten(v)
          => /\ msg'[v] = NoMsg
             /\ last_cells'[v] = Held(v)
    ]_vars

(* A slow viewer is being written the step from its snapshot to the        *)
(* current Frame while another viewer has been sent a Frame in between.    *)
C18_Witness ==
  \E v, w \in Conns :
    /\ v # w
    /\ path[v] = "/stream" /\ pc[v] = "write" /\ sent[v]
    /\ path[w] = "/stream" /\ sent[w] /\ pc[w] = "loop"
    /\ last_cells[w] # NoFrame
    /\ last_cells[w] # last_cells[v] /\ last_cells[w] # Held(v)
    /\ Slot = Held(v)

(***************************************************************************)
(* C19.  For every /stream connection whose viewer is there, the frame the *)
(* viewer has put together from the messages received equals the          *)
(* handler's snapshot; the snapshot a write leaves is the Frame the        *)
(* handler read from the slot in that cycle; and the snapshot changes only *)
(* when a write returns or the thread ends, never by a step of the         *)
(* producer.                                                               *)
(***************************************************************************)
C19_SnapshotIsViewerFrame ==
  [][\A v \in Conns :
       /\ (path[v] = "/stream" /\ ~closed[v]) => recon[v] = last_cells[v]
       /\ (StreamRead(v) /\ pc'[v] = "write") => Held(v)' = Slot
       /\ StreamWritten(v)
          => /\ last_cells'[v] = Held(v)
             /\ ~closed[v] => recon'[v] = Held(v)
       /\ last_cells'[v] # last_cells[v]
          => \/ StreamWritten(v)
             \/ pc[v] \in {"headers", "write"} /\ pc'[v] = "done"
                  /\ last_cells'[v] = NoFrame
    ]_vars

(* A viewer holds the Frame it was sent while the producer has stored a    *)
(* later one.                                                              *)
C19_Witness ==
  \E v \in Conns :
    /\ StreamOpen(v) /\ pc[v] = "loop" /\ sent[v]
    /\ recon[v] # NoFrame /\ recon[v] = last_cells[v]
    /\ Slot # NoFrame /\ Slot # last_cells[v]
    /\ ppc = "capture"

(* Captured text with nothing to show: empty or blanks only.               *)
BlankTexts == {<< >>, RawBlank}

(***************************************************************************)
(* C20.  A capture that succeeds with empty or blank text counts as a      *)
(* failed one: the parser is not run, the producer goes to the end of its  *)
(* cycle and the slot, the lists and the lock stay as they are, as after   *)
(* a capture that failed; so the slot keeps the Frame it had.              *)
(***************************************************************************)
C20_BlankCaptureKeepsFrame ==
  [][( /\ ppc = "captured" /\ ppc' # ppc
       /\ \/ result.kind = "raise"
          \/ result.kind = "exit" /\ result.returncode # 0
          \/ result.kind = "exit" /\ result.stdout \in BlankTexts )
     => /\ ppc' \in {"capture", "enforce"}
        /\ Slot' = Slot
        /\ UNCHANGED << refVars, cells_lock >>
    ]_vars

(* The pane has gone blank while the slot holds a Frame that a viewer has  *)
(* been sent.                                                              *)
C20_Witness ==
  /\ ppc = "captured"
  /\ result.kind = "exit" /\ result.returncode = 0
  /\ result.stdout = RawBlank
  /\ Slot # NoFrame
  /\ \E v \in Conns : StreamOpen(v) /\ sent[v] /\ recon[v] = Slot
=============================================================================
